---- MODULE Spec2Model ----
(***************************************************************************)
(* envio: the CLI helpers of src/bin/envio/cli.rs and the subcommands of   *)
(* src/bin/envio/commands.rs, over the profiles directory                  *)
(* <config_dir>/profiles.                                                  *)
(*                                                                         *)
(* A file name is a sequence of tokens; the token "." is the dot, every    *)
(* other token is a dot-free piece of text, BADBYTE a byte that is not     *)
(* UTF-8.  A file's contents are a sequence of units (Hdr, Var, Raw).      *)
(* An optional value is a sequence of length at most one.                  *)
(***************************************************************************)
EXTENDS Integers, Sequences, FiniteSets, TLC

VARIABLES dirExists, files, target, setenv, procs, op, res, out

vars == <<dirExists, files, target, setenv, procs, op, res, out>>

(* ------------------------------ bounds -------------------------------- *)

MaxFiles == 2

MaxEntries == 3

MaxKeyLen == 9

MaxAttempts == 2

MaxVars == 2

MaxSel == 2

(* arguments of one Add, Update or Remove *)
MaxArgs == 2

MinKeyLen == 8

(* ----------------------------- universes ------------------------------ *)

DOT == "."

ENV == "env"

BADBYTE == "0xFF"

None == <<>>

Some(x) == <<x>>

ProfileFile(name) == name \o <<DOT, ENV>>

ForeignFiles == { <<"notes", DOT, "txt">>, <<"README">>, <<BADBYTE, DOT, ENV>> }

FileNames ==
  { ProfileFile(n) : n \in { <<"dev">>, <<"prod">>, <<DOT, "hidden">>, <<>> } } \cup ForeignFiles

Hdr(scheme, keylen) == [k |-> "hdr", s |-> scheme, v |-> "", n |-> keylen]

Var(name, value) == [k |-> "var", s |-> name, v |-> value, n |-> 0]

Raw == [k |-> "raw", s |-> "", v |-> "", n |-> 0]

Present(fs) == { f \in DOMAIN fs : fs[f] # None }

(* ------------------------ std::path::Path ----------------------------- *)

RECURSIVE LastDot(_, _)
LastDot(f, i) == IF i = 0 THEN 0 ELSE IF f[i] = DOT THEN i ELSE LastDot(f, i - 1)

extension(f) ==
  LET d == LastDot(f, Len(f))
  IN  IF d <= 1 \/ f = <<DOT, DOT>> THEN None ELSE Some(SubSeq(f, d + 1, Len(f)))

file_stem(f) ==
  LET d == LastDot(f, Len(f))
  IN  IF d <= 1 \/ f = <<DOT, DOT>> THEN f ELSE SubSeq(f, 1, d - 1)

IsUtf8(s) == \A i \in 1..Len(s) : s[i] # BADBYTE

starts_with_dot(s) == Len(s) > 0 /\ s[1] = DOT

(* --------------------------- envio::Profile --------------------------- *)

does_exist(fs, name) == fs[ProfileFile(name)] # None

(* Profile::new(..).push_changes(): serialize, seal, write the file. *)
push_changes(fs, path, envs, enc, ioFail) ==
  IF ioFail THEN [res |-> "Io", files |-> fs]
  ELSE [res |-> "Ok", files |-> [fs EXCEPT ![path] = Some(<<enc>> \o envs)]]

(* Profile::load: the envelope opens with its own key; the payload is the
   variables that follow the header. *)
WellFormed(bytes) ==
  /\ Len(bytes) >= 1
  /\ bytes[1].k = "hdr"
  /\ \A i \in 2..Len(bytes) : bytes[i].k = "var"

load_envs(bytes) == SubSeq(bytes, 2, Len(bytes))

(* ------------------------- cli.rs: the helpers ------------------------ *)

(* Mutant: no does_exist check before the write. *)
create_profile_overwrite(dir, fs, name, envs, enc, mkdirFail, pushFail) ==
  IF ~dir /\ mkdirFail
  THEN [res |-> "Panic", dir |-> dir, files |-> fs]
  ELSE LET vec == IF envs = None THEN <<>> ELSE envs[1]
           p == push_changes(fs, ProfileFile(name), vec, enc, pushFail)
       IN  [res |-> p.res, dir |-> TRUE, files |-> p.files]

create_profile(dir, fs, name, envs, enc, mkdirFail, pushFail) ==
  IF does_exist(fs, name)
  THEN [res |-> "ProfileAlreadyExists", dir |-> dir, files |-> fs]
  ELSE IF ~dir /\ mkdirFail
  THEN [res |-> "Panic", dir |-> dir, files |-> fs]
  ELSE LET vec == IF envs = None THEN <<>> ELSE envs[1]
           p == push_changes(fs, ProfileFile(name), vec, enc, pushFail)
       IN  [res |-> p.res, dir |-> TRUE, files |-> p.files]

(* Mutant: the error of remove_file is dropped. *)
delete_profile_swallow(fs, name, osFail) ==
  IF does_exist(fs, name)
  THEN IF osFail
       THEN [res |-> "Ok", files |-> fs]
       ELSE [res |-> "Ok", files |-> [fs EXCEPT ![ProfileFile(name)] = None]]
  ELSE [res |-> "ProfileDoesNotExist", files |-> fs]

delete_profile(fs, name, osFail) ==
  IF does_exist(fs, name)
  THEN IF osFail
       THEN [res |-> "Io", files |-> fs]
       ELSE [res |-> "Ok", files |-> [fs EXCEPT ![ProfileFile(name)] = None]]
  ELSE [res |-> "ProfileDoesNotExist", files |-> fs]

(* Mutant: the extension is not compared with "env". *)
any_extension(f) == extension(f) # None

(* The entries the loop of list_profiles keeps: lines 230-241. *)
has_env_extension(f) == extension(f) = Some(<<ENV>>)

RECURSIVE list_loop(_, _, _)
list_loop(entries, i, profiles) ==
  IF i > Len(entries) THEN [panic |-> FALSE, profiles |-> profiles]
  ELSE LET path == entries[i]
       IN  IF ~has_env_extension(path) THEN list_loop(entries, i + 1, profiles)
           ELSE IF ~IsUtf8(file_stem(path)) THEN [panic |-> TRUE, profiles |-> profiles]
           ELSE IF starts_with_dot(file_stem(path))
                THEN list_loop(entries, i + 1, profiles)
                ELSE list_loop(entries, i + 1, Append(profiles, file_stem(path)))

(* Mutant: a missing directory is read as an empty one. *)
list_profiles_no_dir_check(dir, entries, readFail) ==
  IF readFail THEN [res |-> "Panic", out |-> <<>>]
  ELSE LET r == list_loop(entries, 1, <<>>)
       IN  IF r.panic THEN [res |-> "Panic", out |-> <<>>]
           ELSE [res |-> "Ok", out |-> r.profiles]

list_profiles(dir, entries, readFail) ==
  IF ~dir THEN [res |-> "Msg", out |-> <<>>]
  ELSE IF readFail THEN [res |-> "Panic", out |-> <<>>]
  ELSE LET r == list_loop(entries, 1, <<>>)
       IN  IF r.panic THEN [res |-> "Panic", out |-> <<>>]
           ELSE [res |-> "Ok", out |-> r.profiles]

(* OpenOptions::new().write(true).create(true): no truncate, so the bytes
   written replace a prefix of what the file held. *)
Overwrite(old, new) == new \o SubSeq(old, Len(new) + 1, Len(old))

Contents(fs, f) == IF fs[f] = None THEN <<>> ELSE fs[f][1]

(* Mutant: the location lacks the ".env" suffix, so profiles/<name>.env is
   not the file written. *)
import_profile_no_ext(dir, fs, src, name, openFail, written) ==
  IF ~src.exists THEN [res |-> "Msg", files |-> fs]
  ELSE IF openFail \/ ~src.utf8 THEN [res |-> "Panic", files |-> fs]
  ELSE IF ~dir THEN [res |-> "Panic", files |-> fs]
  ELSE [res |-> IF written < Len(src.bytes) THEN "Io" ELSE "Ok", files |-> fs]

import_profile(dir, fs, src, name, openFail, written) ==
  IF ~src.exists THEN [res |-> "Msg", files |-> fs]
  ELSE IF openFail \/ ~src.utf8 THEN [res |-> "Panic", files |-> fs]
  ELSE IF ~dir THEN [res |-> "Panic", files |-> fs]
  ELSE LET loc == ProfileFile(name)
           new == Overwrite(Contents(fs, loc), SubSeq(src.bytes, 1, written))
       IN  [res |-> IF written < Len(src.bytes) THEN "Io" ELSE "Ok",
            files |-> [fs EXCEPT ![loc] = Some(new)]]

(* format!(..., profile, profile): the script text, the profile name set in
   twice. *)
shellscript(profile) ==
  <<"#!/bin/bash .. envio list -n ">> \o profile \o
  <<" -v .. from profile '">> \o profile \o <<"' .. fi">>

(* create_shellscript: setenv.sh is opened without create and truncated, then
   written; fault names the call that fails, written what write_all stored
   before it failed. *)
create_shellscript(sh, profile, fault, written) ==
  IF sh = None \/ fault = "open" THEN [res |-> "Io", setenv |-> sh]
  ELSE IF fault = "write"
  THEN [res |-> "Io", setenv |-> Some(SubSeq(shellscript(profile), 1, written))]
  ELSE [res |-> IF fault = "sync" THEN "Io" ELSE "Ok",
        setenv |-> Some(shellscript(profile))]

get_shell_config(fault) == IF fault = "shell" THEN "Msg" ELSE "Ok"

load_profile(fs, sh, profile_name, fault, written) ==
  IF ~does_exist(fs, profile_name) THEN [res |-> "ProfileDoesNotExist", setenv |-> sh]
  ELSE IF get_shell_config(fault) # "Ok" THEN [res |-> "Msg", setenv |-> sh]
  ELSE create_shellscript(sh, profile_name, fault, written)

unload_profile(sh, ioFail) ==
  IF sh = None THEN [res |-> "Panic", setenv |-> sh]
  ELSE IF ioFail THEN [res |-> "Io", setenv |-> sh]
  ELSE [res |-> "Ok", setenv |-> Some(<<>>)]

(* EnvVec::keys and EnvVec::get, as export_envs uses them. *)
keys(envs) == [i \in 1..Len(envs) |-> envs[i].s]

contains(seq, x) == \E i \in 1..Len(seq) : seq[i] = x

get(envs, key) == envs[CHOOSE i \in 1..Len(envs) :
                         envs[i].s = key /\ \A j \in 1..(i - 1) : envs[j].s # key].v

(* Mutant: the selection is walked instead of the profile's keys. *)
filter_selection_order(ks, selected) == SelectSeq(selected, LAMBDA item : contains(ks, item))

filter_selected(ks, selected) == SelectSeq(ks, LAMBDA item : contains(selected, item))

RECURSIVE export_buffer(_, _, _)
export_buffer(ks, i, envs) ==
  IF i > Len(ks) THEN <<>>
  ELSE <<ks[i], "=", get(envs, ks[i]), "\n">> \o export_buffer(ks, i + 1, envs)

export_keys(envs, envs_selected) ==
  IF envs_selected # None /\ envs_selected[1] # <<>>
  THEN filter_selected(keys(envs), envs_selected[1])
  ELSE keys(envs)

export_envs(envs, tgt, envs_selected, openFail, written) ==
  IF openFail THEN [res |-> "Panic", target |-> tgt]
  ELSE IF envs = <<>> THEN [res |-> "EmptyProfile", target |-> Some(<<>>)]
  ELSE LET ks == export_keys(envs, envs_selected)
           buffer == export_buffer(ks, 1, envs)
       IN  IF envs_selected # None /\ ks = <<>>
           THEN [res |-> "Msg", target |-> Some(<<>>)]
           ELSE IF written < Len(ks)
           THEN [res |-> "Io", target |-> Some(SubSeq(buffer, 1, 4 * written))]
           ELSE [res |-> "Ok", target |-> Some(buffer)]

(* ---------------------- commands.rs: Command::run --------------------- *)

(* Mutant: the prompt has no validator. *)
min_length_any(n) == n >= 0

(* with_validator(min_length!(8)) *)
min_length(n) == n >= MinKeyLen

(* Password::prompt: an input the validator rejects is asked again; the
   prompt yields the first accepted input, or an error once the user gives
   up. *)
RECURSIVE password_prompt(_, _)
password_prompt(typed, i) ==
  IF i > Len(typed) THEN None
  ELSE IF min_length(typed[i]) THEN Some(typed[i])
  ELSE password_prompt(typed, i + 1)

create_encryption(gpg, selectOk, typed) ==
  IF gpg # None
  THEN IF gpg[1] = "select" /\ ~selectOk THEN None ELSE Some(Hdr("gpg", 0))
  ELSE LET k == password_prompt(typed, 1)
       IN  IF k = None THEN None ELSE Some(Hdr("age", k[1]))

run_create(dir, fs, name, gpg, selectOk, typed, envsIn, mkdirFail, pushFail) ==
  LET e == create_encryption(gpg, selectOk, typed)
      same(r) == [res |-> r, dir |-> dir, files |-> fs, key |-> e]
  IN  IF name = <<>> THEN [res |-> "Rejected", dir |-> dir, files |-> fs, key |-> None]
      ELSE IF does_exist(fs, name)
      THEN [res |-> "Rejected", dir |-> dir, files |-> fs, key |-> None]
      ELSE IF e = None THEN same("Rejected")
      ELSE IF envsIn.kind = "missing_file" THEN same("Rejected")
      ELSE IF envsIn.kind = "panic" THEN same("Panic")
      ELSE IF envsIn.kind = "exit" THEN same("Exit")
      ELSE LET c == create_profile(dir, fs, name, envsIn.envs, e[1], mkdirFail, pushFail)
           IN  [res |-> c.res, dir |-> c.dir, files |-> c.files, key |-> e]

(* utils::download_file writes the body it fetched to the location. *)
download_file(dir, fs, loc, body, netFail) ==
  IF netFail \/ ~dir THEN [res |-> "Msg", files |-> fs]
  ELSE [res |-> "Ok", files |-> [fs EXCEPT ![loc] = Some(body)]]

download_profile(dir, fs, name, body, netFail) ==
  download_file(dir, fs, ProfileFile(name), body, netFail)

run_import(dir, fs, name, how, src, openFail, written, netFail) ==
  IF does_exist(fs, name) THEN [res |-> "Rejected", files |-> fs]
  ELSE IF how = "url" THEN download_profile(dir, fs, name, src.bytes, netFail)
  ELSE IF how = "file" THEN import_profile(dir, fs, src, name, openFail, written)
  ELSE [res |-> "Rejected", files |-> fs]

(* Profile::remove_env, its outcome dropped by the caller. *)
remove_env(envs, name) == SelectSeq(envs, LAMBDA e : e.s # name)

RECURSIVE remove_all(_, _, _)
remove_all(envs, names, i) ==
  IF i > Len(names) THEN envs
  ELSE remove_all(remove_env(envs, names[i]), names, i + 1)

(* get_encryption_type + Profile::load: "exit" when the key prompt of
   get_userkey fails, "fail" when the profile does not open. *)
load(fs, name, keyIn) ==
  LET bytes == Contents(fs, ProfileFile(name))
  IN  IF WellFormed(bytes) /\ bytes[1].s = "age" /\ keyIn = "exit" THEN [st |-> "exit", envs |-> <<>>]
      ELSE IF ~WellFormed(bytes) \/ keyIn # "ok" THEN [st |-> "fail", envs |-> <<>>]
      ELSE [st |-> "ok", envs |-> load_envs(bytes)]

(* Remove without the is_empty test: an empty variable list is treated as a
   list of variables. *)
run_remove_no_empty_check(fs, name, envs, keyIn, pushFail, osFail) ==
  IF ~does_exist(fs, name) THEN [res |-> "Rejected", files |-> fs]
  ELSE IF envs # None
  THEN LET p == load(fs, name, keyIn)
       IN  IF p.st = "exit" THEN [res |-> "Exit", files |-> fs]
           ELSE IF p.st = "fail" THEN [res |-> "Rejected", files |-> fs]
           ELSE push_changes(fs, ProfileFile(name), remove_all(p.envs, envs[1], 1),
                             Contents(fs, ProfileFile(name))[1], pushFail)
  ELSE delete_profile(fs, name, osFail)

run_remove(fs, name, envs, keyIn, pushFail, osFail) ==
  IF ~does_exist(fs, name) THEN [res |-> "Rejected", files |-> fs]
  ELSE IF envs # None /\ envs[1] # <<>>
  THEN LET p == load(fs, name, keyIn)
       IN  IF p.st = "exit" THEN [res |-> "Exit", files |-> fs]
           ELSE IF p.st = "fail" THEN [res |-> "Rejected", files |-> fs]
           ELSE push_changes(fs, ProfileFile(name), remove_all(p.envs, envs[1], 1),
                             Contents(fs, ProfileFile(name))[1], pushFail)
  ELSE delete_profile(fs, name, osFail)

(* Add and Update take arguments KEY=VALUE or KEY; an argument is the
   sequence of its tokens, "=" being a token of its own, with at most one
   token on either side of the first "=". *)
EQ == "="

(* str::contains('=') *)
has_eq(arg) == contains(arg, EQ)

FirstEq(arg) == CHOOSE i \in 1..Len(arg) : arg[i] = EQ /\ \A j \in 1..(i - 1) : arg[j] # EQ

(* splitn(2, '=').next(): what stands before the first '=', possibly nothing *)
split_key(arg) == IF FirstEq(arg) = 1 THEN "" ELSE arg[1]

(* the second part: what follows the first '=', possibly nothing *)
split_value(arg) == IF FirstEq(arg) = Len(arg) THEN "" ELSE arg[FirstEq(arg) + 1]

contains_key(envs, key) == contains(keys(envs), key)

insert_env(envs, key, value) == Append(envs, Var(key, value))

edit_env(envs, key, value) ==
  [i \in 1..Len(envs) |-> IF envs[i].s = key THEN Var(key, value) ELSE envs[i]]

(* The loop of Add over its arguments; typed is the answer to the value
   prompt, None when the prompt fails. A duplicate skipped instead of
   returning: *)
RECURSIVE add_loop_skip(_, _, _, _)
add_loop_skip(envs, args, i, typed) ==
  IF i > Len(args) THEN [st |-> "push", envs |-> envs]
  ELSE LET env == args[i]
           key == IF has_eq(env) THEN split_key(env) ELSE env[1]
       IN  IF contains_key(envs, key) THEN add_loop_skip(envs, args, i + 1, typed)
           ELSE IF has_eq(env)
           THEN add_loop_skip(insert_env(envs, key, split_value(env)), args, i + 1, typed)
           ELSE IF typed = None THEN [st |-> "Exit", envs |-> envs]
           ELSE add_loop_skip(insert_env(envs, key, typed[1]), args, i + 1, typed)

RECURSIVE add_loop(_, _, _, _)
add_loop(envs, args, i, typed) ==
  IF i > Len(args) THEN [st |-> "push", envs |-> envs]
  ELSE LET env == args[i]
       IN  IF has_eq(env)
           THEN LET key == split_key(env)
                IN  IF contains_key(envs, key) THEN [st |-> "Duplicate", envs |-> envs]
                    ELSE add_loop(insert_env(envs, key, split_value(env)), args, i + 1, typed)
           ELSE IF contains_key(envs, env[1]) THEN [st |-> "Duplicate", envs |-> envs]
           ELSE IF typed = None THEN [st |-> "Exit", envs |-> envs]
           ELSE add_loop(insert_env(envs, env[1], typed[1]), args, i + 1, typed)

(* The loop of Update; an absent variable inserted instead of returning: *)
RECURSIVE update_loop_upsert(_, _, _, _)
update_loop_upsert(envs, args, i, typed) ==
  IF i > Len(args) THEN [st |-> "push", envs |-> envs]
  ELSE LET env == args[i]
           key == IF has_eq(env) THEN split_key(env) ELSE env[1]
           value == IF has_eq(env) THEN Some(split_value(env)) ELSE typed
       IN  IF value = None THEN [st |-> "Exit", envs |-> envs]
           ELSE IF contains_key(envs, key)
           THEN update_loop_upsert(edit_env(envs, key, value[1]), args, i + 1, typed)
           ELSE update_loop_upsert(insert_env(envs, key, value[1]), args, i + 1, typed)

RECURSIVE update_loop(_, _, _, _)
update_loop(envs, args, i, typed) ==
  IF i > Len(args) THEN [st |-> "push", envs |-> envs]
  ELSE LET env == args[i]
       IN  IF has_eq(env)
           THEN LET key == split_key(env)
                IN  IF ~contains_key(envs, key) THEN [st |-> "Missing", envs |-> envs]
                    ELSE update_loop(edit_env(envs, key, split_value(env)), args, i + 1, typed)
           ELSE IF ~contains_key(envs, env[1]) THEN [st |-> "Missing", envs |-> envs]
           ELSE IF typed = None THEN [st |-> "Exit", envs |-> envs]
           ELSE update_loop(edit_env(envs, env[1], typed[1]), args, i + 1, typed)

(* A command up to its push_changes: "push" with the profile as it stands in
   memory, or the way the command ended before. *)
staged(cmd, fs, name, args, keyIn, typed) ==
  IF ~does_exist(fs, name) THEN [st |-> "Rejected", envs |-> <<>>]
  ELSE LET p == load(fs, name, keyIn)
       IN  IF p.st = "exit" THEN [st |-> "Exit", envs |-> <<>>]
           ELSE IF p.st = "fail" THEN [st |-> "Rejected", envs |-> <<>>]
           ELSE IF cmd = "Add" THEN add_loop(p.envs, args, 1, typed)
           ELSE IF cmd = "Update" THEN update_loop(p.envs, args, 1, typed)
           ELSE [st |-> "push", envs |-> remove_all(p.envs, args, 1)]

(* What push_changes is handed: the profile as the command holds it in
   memory. A push that first merged in the variables the file holds now: *)
pushed_envs_merged(proc, fs) ==
  proc.envs \o SelectSeq(load_envs(Contents(fs, ProfileFile(proc.name))),
                         LAMBDA e : ~contains_key(proc.envs, e.s))

pushed_envs(proc, fs) == proc.envs

run_add(fs, name, envs, keyIn, typed, pushFail) ==
  LET s == staged("Add", fs, name, envs, keyIn, typed)
  IN  IF s.st # "push" THEN [res |-> s.st, files |-> fs]
      ELSE push_changes(fs, ProfileFile(name), s.envs,
                        Contents(fs, ProfileFile(name))[1], pushFail)

run_update(fs, name, envs, keyIn, typed, pushFail) ==
  LET s == staged("Update", fs, name, envs, keyIn, typed)
  IN  IF s.st # "push" THEN [res |-> s.st, files |-> fs]
      ELSE push_changes(fs, ProfileFile(name), s.envs,
                        Contents(fs, ProfileFile(name))[1], pushFail)

run_export(fs, tgt, name, envs, keyIn, picked, openFail, written) ==
  IF ~does_exist(fs, name) THEN [res |-> "Rejected", target |-> tgt, sel |-> envs]
  ELSE LET p == load(fs, name, keyIn)
       IN  IF p.st = "exit" THEN [res |-> "Exit", target |-> tgt, sel |-> envs]
           ELSE IF p.st = "fail" THEN [res |-> "Rejected", target |-> tgt, sel |-> envs]
           ELSE IF envs # None /\ contains(envs[1], "select")
           THEN IF picked = None THEN [res |-> "Exit", target |-> tgt, sel |-> envs]
                ELSE LET x == export_envs(p.envs, tgt, picked, openFail, written)
                     IN  [res |-> x.res, target |-> x.target, sel |-> picked]
           ELSE LET x == export_envs(p.envs, tgt, envs, openFail, written)
                IN  [res |-> x.res, target |-> x.target, sel |-> envs]

(* ------------------------------ actions ------------------------------- *)

Call(cmd, name, arg) == [cmd |-> cmd, name |-> name, arg |-> arg]

(* The commands running side by side, each between its load and its push
   (or between import_profile's open and its write). *)
Procs == { 1, 2 }

Idle ==
  [pc |-> "idle", cmd |-> "", name |-> <<>>, args |-> <<>>, snap |-> <<>>,
   envs |-> <<>>, enc |-> Raw, pre |-> None, stale |-> FALSE]

IdleProcs == [p \in Procs |-> Idle]

(* The orders in which read_dir may enumerate the entries present. *)
Orders(S) ==
  { o \in [1..Cardinality(S) -> S] : \A i, j \in DOMAIN o : i # j => o[i] # o[j] }

ListProfiles(order, readFail) ==
  LET r == list_profiles(dirExists, order, readFail)
  IN  /\ op' = Call("list_profiles", <<>>, None)
      /\ res' = r.res
      /\ out' = r.out
      /\ UNCHANGED <<dirExists, files, target, setenv, procs>>

CreateProfile(name, envs, enc, mkdirFail, pushFail) ==
  LET r == create_profile(dirExists, files, name, envs, enc, mkdirFail, pushFail)
  IN  /\ dirExists' = r.dir
      /\ files' = r.files
      /\ op' = Call("create_profile", name, None)
      /\ res' = r.res
      /\ out' = <<>>
      /\ UNCHANGED <<target, setenv, procs>>

ImportProfile(src, name, openFail, written) ==
  LET r == import_profile(dirExists, files, src, name, openFail, written)
  IN  /\ files' = r.files
      /\ op' = Call("import_profile", name,
                    IF src.exists /\ src.utf8 THEN Some(src.bytes) ELSE None)
      /\ res' = r.res
      /\ out' = <<>>
      /\ UNCHANGED <<dirExists, target, setenv, procs>>

DeleteProfile(name, osFail) ==
  LET r == delete_profile(files, name, osFail)
  IN  /\ files' = r.files
      /\ op' = Call("delete_profile", name, None)
      /\ res' = r.res
      /\ out' = <<>>
      /\ UNCHANGED <<dirExists, target, setenv, procs>>

LoadProfile(name, fault, written) ==
  LET r == load_profile(files, setenv, name, fault, written)
  IN  /\ setenv' = r.setenv
      /\ op' = Call("load_profile", name, None)
      /\ res' = r.res
      /\ out' = <<>>
      /\ UNCHANGED <<dirExists, files, target, procs>>

UnloadProfile(ioFail) ==
  LET r == unload_profile(setenv, ioFail)
  IN  /\ setenv' = r.setenv
      /\ op' = Call("unload_profile", <<>>, None)
      /\ res' = r.res
      /\ out' = <<>>
      /\ UNCHANGED <<dirExists, files, target, procs>>

RunCreate(name, gpg, selectOk, typed, envsIn, mkdirFail, pushFail) ==
  LET r == run_create(dirExists, files, name, gpg, selectOk, typed, envsIn,
                      mkdirFail, pushFail)
  IN  /\ dirExists' = r.dir
      /\ files' = r.files
      /\ op' = Call("Create", name, r.key)
      /\ res' = r.res
      /\ out' = <<>>
      /\ UNCHANGED <<target, setenv, procs>>

RunImport(name, how, src, openFail, written, netFail) ==
  LET r == run_import(dirExists, files, name, how, src, openFail, written, netFail)
  IN  /\ files' = r.files
      /\ op' = Call("Import", name, None)
      /\ res' = r.res
      /\ out' = <<>>
      /\ UNCHANGED <<dirExists, target, setenv, procs>>

RunRemove(name, envs, keyIn, pushFail, osFail) ==
  LET r == run_remove(files, name, envs, keyIn, pushFail, osFail)
  IN  /\ files' = r.files
      /\ op' = Call("Remove", name, envs)
      /\ res' = r.res
      /\ out' = <<>>
      /\ UNCHANGED <<dirExists, target, setenv, procs>>

RunAdd(name, envs, keyIn, typed, pushFail) ==
  LET r == run_add(files, name, envs, keyIn, typed, pushFail)
  IN  /\ files' = r.files
      /\ op' = Call("Add", name, envs)
      /\ res' = r.res
      /\ out' = <<>>
      /\ UNCHANGED <<dirExists, target, setenv, procs>>

RunUpdate(name, envs, keyIn, typed, pushFail) ==
  LET r == run_update(files, name, envs, keyIn, typed, pushFail)
  IN  /\ files' = r.files
      /\ op' = Call("Update", name, envs)
      /\ res' = r.res
      /\ out' = <<>>
      /\ UNCHANGED <<dirExists, target, setenv, procs>>

RunExport(name, envs, keyIn, picked, openFail, written) ==
  LET r == run_export(files, target, name, envs, keyIn, picked, openFail, written)
  IN  /\ target' = r.target
      /\ op' = Call("Export", name, r.sel)
      /\ res' = r.res
      /\ out' = <<>>
      /\ UNCHANGED <<dirExists, files, setenv, procs>>

(* Add, Update or Remove (with variables) of process p up to its push: the
   profile is loaded and edited in memory; nothing is written yet. *)
LoadStep(p, cmd, name, args, typed) ==
  LET s == staged(cmd, files, name, args, "ok", typed)
      bytes == Contents(files, ProfileFile(name))
  IN  /\ procs[p].pc = "idle"
      /\ s.st = "push"
      /\ procs' = [procs EXCEPT ![p] =
                     [pc |-> "loaded", cmd |-> cmd, name |-> name, args |-> args,
                      snap |-> load_envs(bytes), envs |-> s.envs, enc |-> bytes[1],
                      pre |-> None, stale |-> FALSE]]
      /\ op' = Call("load", name, Some(procs'[p]))
      /\ res' = "Ok"
      /\ out' = <<>>
      /\ UNCHANGED <<dirExists, files, target, setenv>>

(* The push_changes that ends the command of process p; stale records that
   the file changed since p loaded it. *)
PushStep(p, ioFail) ==
  LET proc == procs[p]
      loc == ProfileFile(proc.name)
      r == push_changes(files, loc, pushed_envs(proc, files), proc.enc, ioFail)
  IN  /\ proc.pc = "loaded"
      /\ files' = r.files
      /\ procs' = [procs EXCEPT ![p] = Idle]
      /\ op' = Call("push", proc.name,
                    Some([proc EXCEPT !.stale = (files[loc] # Some(<<proc.enc>> \o proc.snap))]))
      /\ res' = r.res
      /\ out' = <<>>
      /\ UNCHANGED <<dirExists, target, setenv>>

(* import_profile of process p up to the open of its target: the source is
   read and the target is created when absent, not truncated. *)
ImportOpen(p, src, name) ==
  LET loc == ProfileFile(name)
  IN  /\ procs[p].pc = "idle"
      /\ src.exists /\ src.utf8 /\ dirExists
      /\ files' = [files EXCEPT ![loc] = IF files[loc] = None THEN Some(<<>>) ELSE files[loc]]
      /\ procs' = [procs EXCEPT ![p] =
                     [Idle EXCEPT !.pc = "opened", !.cmd = "import_profile", !.name = name,
                                  !.envs = src.bytes, !.pre = files[loc]]]
      /\ op' = Call("import_open", name, Some(procs'[p]))
      /\ res' = "Ok"
      /\ out' = <<>>
      /\ UNCHANGED <<dirExists, target, setenv>>

(* write_all of process p on the target it opened. *)
ImportWrite(p, written) ==
  LET proc == procs[p]
      loc == ProfileFile(proc.name)
  IN  /\ proc.pc = "opened"
      /\ files' = [files EXCEPT ![loc] =
                     Some(Overwrite(Contents(files, loc), SubSeq(proc.envs, 1, written)))]
      /\ procs' = [procs EXCEPT ![p] = Idle]
      /\ op' = Call("import_write", proc.name, Some(proc))
      /\ res' = IF written < Len(proc.envs) THEN "Io" ELSE "Ok"
      /\ out' = <<>>
      /\ UNCHANGED <<dirExists, target, setenv>>

(* ------------------------- inputs of the runs ------------------------- *)

VarX == Var("X", "1")

AgeKey == Hdr("age", MinKeyLen)

GpgKey == Hdr("gpg", 0)

NoSource == [exists |-> FALSE, utf8 |-> TRUE, bytes |-> <<>>]

BinarySource == [exists |-> TRUE, utf8 |-> FALSE, bytes |-> <<>>]

TextSource(bytes) == [exists |-> TRUE, utf8 |-> TRUE, bytes |-> bytes]

Sources == { NoSource, BinarySource, TextSource(<<GpgKey>>) }

EnvsOk == [kind |-> "ok", envs |-> Some(<<VarX>>)]

EnvsNone == [kind |-> "none", envs |-> None]

EnvsFailed == { [kind |-> k, envs |-> None] : k \in { "missing_file", "panic", "exit" } }

InitOp == Call("init", <<>>, None)

Within(bound) == Cardinality(Present(files')) <= bound

DirHolding(S) == [f \in FileNames |-> IF f \in S THEN Some(<<Raw>>) ELSE None]

(* ------------------- the profiles directory: Spec --------------------- *)

Names == { <<"dev">>, <<DOT, "hidden">>, <<>> }

(* The directory as the user's disk holds it before the first command:
   missing, or holding files envio did not write. *)
Init ==
  /\ dirExists \in BOOLEAN
  /\ files \in { DirHolding({}) } \cup
               { DirHolding({ <<"notes", DOT, "txt">> }) : d \in { dirExists } \ { FALSE } }
  /\ target = None
  /\ setenv = None
  /\ procs = IdleProcs
  /\ op = InitOp
  /\ res = "Ok"
  /\ out = <<>>

Next ==
  \/ \E n \in Names, fault \in { "none", "mkdir", "push" } :
       /\ CreateProfile(n, Some(<<VarX>>), AgeKey, fault = "mkdir", fault = "push")
       /\ Within(MaxFiles)
  \/ \E s \in Sources, n \in Names, fault \in { "none", "open", "write" } :
       /\ ImportProfile(s, n, fault = "open", IF fault = "write" THEN 0 ELSE Len(s.bytes))
       /\ Within(MaxFiles)
  \/ \E n \in Names, osFail \in BOOLEAN : DeleteProfile(n, osFail)
  \/ \E n \in Names, typed \in { <<>>, <<MinKeyLen>> }, e \in { EnvsOk } \cup EnvsFailed :
       \E fault \in IF e = EnvsOk THEN { "none", "mkdir", "push" } ELSE { "none" } :
         /\ RunCreate(n, None, TRUE, typed, e, fault = "mkdir", fault = "push")
         /\ Within(MaxFiles)
  \/ \E n \in Names, how \in { "url", "file", "none" } :
       \E s \in IF how = "file" THEN Sources ELSE { TextSource(<<GpgKey>>) },
          fail \in BOOLEAN :
         /\ RunImport(n, how, s, fail, Len(s.bytes), fail)
         /\ Within(MaxFiles)
  \/ \E n \in Names, envs \in { None, Some(<<>>), Some(<<"X">>) },
        fault \in { "none", "exit", "bad", "io" } :
       RunRemove(n, envs, IF fault \in { "exit", "bad" } THEN fault ELSE "ok",
                 fault = "io", fault = "io")

Spec == Init /\ [][Next]_vars

(* --------------------- enumeration: SpecList -------------------------- *)

ProfileNames == { <<"dev">>, <<"prod">>, <<DOT, "hidden">>, <<>> }

InitList ==
  /\ dirExists \in BOOLEAN
  /\ \E S \in SUBSET ForeignFiles :
       /\ dirExists \/ S = {}
       /\ Cardinality(S) <= MaxEntries
       /\ files = DirHolding(S)
  /\ target = None
  /\ setenv = None
  /\ procs = IdleProcs
  /\ op = InitOp
  /\ res = "Ok"
  /\ out = <<>>

NextList ==
  \/ \E o \in Orders(Present(files)), readFail \in BOOLEAN : ListProfiles(o, readFail)
  \/ \E n \in ProfileNames :
       /\ CreateProfile(n, None, AgeKey, FALSE, FALSE)
       /\ Within(MaxEntries)
  \/ \E n \in ProfileNames : DeleteProfile(n, FALSE)

SpecList == InitList /\ [][NextList]_vars

(* ------------------------ export: SpecExport -------------------------- *)

SeqsUpTo(S, n) == UNION { [1..k -> S] : k \in 0..n }

VarNames == { "X", "Y", "Z" }

ValueOf(name) == IF name = "X" THEN "1" ELSE IF name = "Y" THEN "" ELSE "3"

Distinct(seq) == \A i, j \in DOMAIN seq : i # j => seq[i] # seq[j]

(* The variable sets a profile holds: names unique, in insertion order. *)
EnvVecs ==
  { [i \in DOMAIN ks |-> Var(ks[i], ValueOf(ks[i]))] :
      ks \in { q \in SeqsUpTo(VarNames, MaxVars) : Distinct(q) } }

Selections == { None } \cup { Some(sel) : sel \in SeqsUpTo(VarNames, MaxSel) }

(* What the MultiSelect prompt may hand back: an error, or options it was
   given, in the order it was given them. *)
Picks(envs) ==
  { None } \cup { Some(SelectSeq(keys(envs), LAMBDA k : k \in S)) : S \in SUBSET VarNames }

OldTarget == <<"OLD", "=", "0", "\n">>

InitExport ==
  /\ dirExists = TRUE
  /\ \E envs \in EnvVecs :
       files = [DirHolding({}) EXCEPT ![ProfileFile(<<"dev">>)] = Some(<<AgeKey>> \o envs)]
  /\ target \in { None, Some(OldTarget) }
  /\ setenv = None
  /\ procs = IdleProcs
  /\ op = InitOp
  /\ res = "Ok"
  /\ out = <<>>

NextExport ==
  \/ \E sel \in Selections : RunExport(<<"dev">>, sel, "ok", None, FALSE, MaxVars)
  \/ \E n \in { <<"dev">>, <<"prod">> }, sel \in { None, Some(<<"X">>) },
        fault \in { "exit", "bad", "open", "write" } :
       RunExport(n, sel, IF fault \in { "exit", "bad" } THEN fault ELSE "ok", None,
                 fault = "open", IF fault = "write" THEN 0 ELSE MaxVars)
  \/ \E sel \in { Some(<<"select">>), Some(<<"X", "select">>) } :
       \E picked \in Picks(load_envs(Contents(files, ProfileFile(<<"dev">>)))) :
         RunExport(<<"dev">>, sel, "ok", picked, FALSE, MaxVars)

SpecExport == InitExport /\ [][NextExport]_vars

(* ------------------------- Create: SpecCreate ------------------------- *)

KeyLens == { n \in 0..MaxKeyLen : n = 0 \/ n >= MinKeyLen - 1 }

InitCreate ==
  /\ dirExists \in BOOLEAN
  /\ files = DirHolding({})
  /\ target = None
  /\ setenv = None
  /\ procs = IdleProcs
  /\ op = InitOp
  /\ res = "Ok"
  /\ out = <<>>

NextCreate ==
  \/ \E n \in Names, typed \in SeqsUpTo(KeyLens, MaxAttempts) :
       /\ RunCreate(n, None, TRUE, typed, EnvsOk, FALSE, FALSE)
       /\ Within(MaxFiles)
  \/ \E n \in Names, gpg \in { Some("select"), Some("KEYID") }, selectOk \in BOOLEAN :
       /\ RunCreate(n, gpg, selectOk, <<>>, EnvsNone, FALSE, FALSE)
       /\ Within(MaxFiles)
  \/ \E n \in Names, e \in EnvsFailed \cup { EnvsNone }, fault \in { "mkdir", "push" } :
       /\ RunCreate(n, None, TRUE, <<MinKeyLen>>, e, fault = "mkdir", fault = "push")
       /\ Within(MaxFiles)
  \/ \E n \in Names : DeleteProfile(n, FALSE)

SpecCreate == InitCreate /\ [][NextCreate]_vars

(* ---------------- failures of the helpers: SpecErrors ----------------- *)

InitErrors ==
  /\ dirExists \in BOOLEAN
  /\ files = DirHolding({})
  /\ target = None
  /\ setenv \in { None, Some(<<"dev">>) }
  /\ procs = IdleProcs
  /\ op = InitOp
  /\ res = "Ok"
  /\ out = <<>>

NextErrors ==
  \/ \E n \in { <<"dev">> }, envs \in { None, Some(<<VarX>>) },
        fault \in { "none", "mkdir", "push" } :
       CreateProfile(n, envs, AgeKey, fault = "mkdir", fault = "push")
  \/ \E s \in Sources, fault \in { "none", "open", "write" } :
       ImportProfile(s, <<"prod">>, fault = "open",
                     IF fault = "write" THEN 0 ELSE Len(s.bytes))
  \/ \E o \in Orders(Present(files)), readFail \in BOOLEAN : ListProfiles(o, readFail)
  \/ \E sel \in { None, Some(<<"X">>), Some(<<"Y">>) },
        fault \in { "none", "open", "write" } :
       RunExport(<<"dev">>, sel, "ok", None, fault = "open",
                 IF fault = "write" THEN 0 ELSE MaxVars)
  \/ \E ioFail \in BOOLEAN : UnloadProfile(ioFail)
  \/ \E n \in { <<"dev">>, <<"prod">> }, osFail \in BOOLEAN : DeleteProfile(n, osFail)

SpecErrors == InitErrors /\ [][NextErrors]_vars

(* ---- Add, Update and Remove over the variables of one profile ---- *)

ArgSet == { <<"X", EQ, "2">>, <<"Y", EQ, "2">>, <<EQ, "2">>, <<"Y">> }

ArgLists == SeqsUpTo(ArgSet, MaxArgs)

RemoveLists == SeqsUpTo({ "X", "Y" }, MaxArgs)

EnvsWithin(bound) == \A f \in FileNames : Len(Contents(files', f)) <= bound + 1

InitVars ==
  /\ dirExists = TRUE
  /\ \E envs \in { <<>>, <<VarX>> } :
       files = [DirHolding({}) EXCEPT ![ProfileFile(<<"dev">>)] = Some(<<AgeKey>> \o envs)]
  /\ target = None
  /\ setenv = None
  /\ procs = IdleProcs
  /\ op = InitOp
  /\ res = "Ok"
  /\ out = <<>>

NextVars ==
  \/ \E args \in ArgLists :
       /\ RunAdd(<<"dev">>, args, "ok", Some("3"), FALSE)
       /\ EnvsWithin(MaxVars)
  \/ \E fault \in { "exit", "bad", "prompt", "io" } :
       RunAdd(<<"dev">>, <<<<"Y">>>>, IF fault \in { "exit", "bad" } THEN fault ELSE "ok",
              IF fault = "prompt" THEN None ELSE Some("3"), fault = "io")
  \/ \E args \in ArgLists : RunUpdate(<<"dev">>, args, "ok", Some("3"), FALSE)
  \/ \E fault \in { "exit", "bad", "prompt", "io" } :
       RunUpdate(<<"dev">>, <<<<"X">>>>, IF fault \in { "exit", "bad" } THEN fault ELSE "ok",
                 IF fault = "prompt" THEN None ELSE Some("3"), fault = "io")
  \/ \E envs \in { None } \cup { Some(l) : l \in RemoveLists } :
       RunRemove(<<"dev">>, envs, "ok", FALSE, FALSE)
  \/ \E envs \in { None, Some(<<"X">>) }, fault \in { "exit", "bad", "io" } :
       RunRemove(<<"dev">>, envs, IF fault = "io" THEN "ok" ELSE fault,
                 fault = "io", fault = "io")
  \/ CreateProfile(<<"dev">>, Some(<<VarX>>), AgeKey, FALSE, FALSE)

SpecVars == InitVars /\ [][NextVars]_vars

(* ---- two commands at once on the same profiles directory ---- *)

ConcCmds ==
  { [cmd |-> "Add", args |-> << <<"Y", EQ, "2">> >>],
    [cmd |-> "Add", args |-> << <<"Z", EQ, "2">> >>],
    [cmd |-> "Update", args |-> << <<"X", EQ, "2">> >>],
    [cmd |-> "Remove", args |-> << <<"X">> >>] }

(* Remove is given names, Add and Update are given KEY=VALUE arguments. *)
ArgsOf(c) == IF c.cmd = "Remove" THEN [i \in 1..Len(c.args) |-> c.args[i][1]] ELSE c.args

InitConc ==
  /\ dirExists = TRUE
  /\ files = [DirHolding({}) EXCEPT ![ProfileFile(<<"dev">>)] = Some(<<AgeKey, VarX>>)]
  /\ target = None
  /\ setenv = None
  /\ procs = IdleProcs
  /\ op = InitOp
  /\ res = "Ok"
  /\ out = <<>>

NextConc ==
  \/ \E p \in Procs, c \in ConcCmds :
       /\ LoadStep(p, c.cmd, <<"dev">>, ArgsOf(c), None)
       /\ Len(procs'[p].envs) <= MaxVars
  \/ \E p \in Procs, ioFail \in BOOLEAN : PushStep(p, ioFail)
  \/ \E p \in Procs : ImportOpen(p, TextSource(<<GpgKey>>), <<"prod">>)
  \/ \E p \in Procs, written \in { 0, 1 } : ImportWrite(p, written)

SpecConc == InitConc /\ [][NextConc]_vars

(* ---- load_profile and unload_profile over setenv.sh ---- *)

InitShell ==
  /\ dirExists = TRUE
  /\ files = DirHolding({})
  /\ target = None
  /\ setenv \in { None, Some(<<>>) }
  /\ procs = IdleProcs
  /\ op = InitOp
  /\ res = "Ok"
  /\ out = <<>>

NextShell ==
  \/ \E n \in { <<"dev">>, <<"prod">> } : LoadProfile(n, "none", 0)
  \/ \E n \in { <<"dev">>, <<"prod">> }, fault \in { "shell", "open", "write", "sync" } :
       \E written \in IF fault = "write" THEN 0..(Len(shellscript(n)) - 1) ELSE { 0 } :
         LoadProfile(n, fault, written)
  \/ \E ioFail \in BOOLEAN : UnloadProfile(ioFail)
  \/ \E n \in { <<"dev">>, <<"prod">> } : CreateProfile(n, None, AgeKey, FALSE, FALSE)
  \/ \E n \in { <<"dev">>, <<"prod">> } : DeleteProfile(n, FALSE)

SpecShell == InitShell /\ [][NextShell]_vars

(* ============================== claims ================================ *)

(* An entry list_profiles is to report, read off the file name: it ends in
   ".env" and does not begin with a dot; its stem is what precedes ".env". *)
Reportable(f) ==
  /\ Len(f) >= 3
  /\ f[Len(f)] = ENV
  /\ f[Len(f) - 1] = DOT
  /\ f[1] # DOT

StemOf(f) == SubSeq(f, 1, Len(f) - 2)

Visible(fs) == { f \in Present(fs) : Reportable(f) }

Listed == op.cmd = "list_profiles" /\ res = "Ok"

(* C1: whenever list_profiles returns Ok, the names it reports are exactly the
   stems of the entries whose extension is env and whose stem does not begin
   with a dot, each once; no other entry is reported. *)
C1_ListReportsVisible ==
  Listed =>
    /\ { out[i] : i \in DOMAIN out } = { StemOf(f) : f \in Visible(files) }
    /\ Len(out) = Cardinality(Visible(files))

C1_Witness ==
  /\ Listed
  /\ out = << <<"dev">> >>
  /\ { <<"notes", DOT, "txt">>, ProfileFile(<<DOT, "hidden">>) } \subseteq Present(files)

(* C2: list_profiles on a missing profiles directory returns the error and
   no names; it returns Ok with no names only when the directory exists and
   holds no visible profile. *)
C2_MissingDirIsError ==
  op.cmd = "list_profiles" =>
    /\ ~dirExists => res = "Msg" /\ out = <<>>
    /\ (res = "Ok" /\ out = <<>>) => dirExists /\ Visible(files) = {}

C2_Witness == op.cmd = "list_profiles" /\ ~dirExists /\ res = "Msg"

(* C3: two listings of the same directory contents report the same sequence
   of names, whatever the order read_dir enumerates the entries in. *)
C3_ListOrderDeterministic ==
  [][(Listed /\ op'.cmd = "list_profiles" /\ res' = "Ok" /\ files' = files)
       => out' = out]_vars

(* C4: does_exist(name) holds exactly when profiles/<name>.env is present; it
   holds after a successful create_profile(name) or import_profile(_, name)
   and fails after a successful delete_profile(name). *)
C4_ExistsIffFile ==
  /\ \A n \in Names : does_exist(files, n) <=> n \o <<DOT, ENV>> \in Present(files)
  /\ (op.cmd \in { "create_profile", "import_profile" } /\ res = "Ok")
       => op.name \o <<DOT, ENV>> \in Present(files)
  /\ (op.cmd = "delete_profile" /\ res = "Ok")
       => op.name \o <<DOT, ENV>> \notin Present(files)

C4_Witness ==
  /\ op.cmd = "import_profile"
  /\ res = "Ok"
  /\ does_exist(files, op.name)

(* C5: create_profile on an existing name returns ProfileAlreadyExists, the
   Create and Import commands on an existing name stop with an error, and in
   each case every file is left as it was. *)
C5_NoOverwrite ==
  [][(op'.cmd \in { "create_profile", "Create", "Import" } /\ does_exist(files, op'.name))
       => /\ files' = files
          /\ res' = IF op'.cmd = "create_profile" THEN "ProfileAlreadyExists"
                    ELSE "Rejected"]_vars

C5_Witness ==
  /\ op.cmd = "create_profile"
  /\ res = "ProfileAlreadyExists"
  /\ Contents(files, ProfileFile(op.name)) = <<GpgKey>>

(* C6: delete_profile on a name with no profile returns ProfileDoesNotExist
   and changes no file; on an existing profile it either removes the file and
   returns Ok, or returns Io and changes nothing. *)
C6_DeleteContract ==
  [][op'.cmd = "delete_profile" =>
       IF ~does_exist(files, op'.name)
       THEN res' = "ProfileDoesNotExist" /\ files' = files
       ELSE \/ /\ res' = "Ok"
               /\ ~does_exist(files', op'.name)
               /\ \A f \in FileNames \ { ProfileFile(op'.name) } : files'[f] = files[f]
            \/ res' = "Io" /\ files' = files]_vars

C6_Witness ==
  /\ op.cmd = "delete_profile"
  /\ res = "Io"
  /\ does_exist(files, op.name)

(* C7: delete_profile, called directly or by the Remove command given no
   variables, changes no file whose name begins with a dot or whose extension
   is not env. *)
C7_DeleteLeavesHidden ==
  [][(\/ op'.cmd = "delete_profile"
      \/ op'.cmd = "Remove" /\ op'.arg \in { None, Some(<<>>) }) =>
       \A f \in FileNames : ~Reportable(f) => files'[f] = files[f]]_vars

(* C8: no profile operation aborts the process; every failure comes back as
   an error value. *)
C8_NeverAborts == res # "Panic"

(* The variables of envs a selection names, in the order envs holds them. *)
C9_Selected(envs, sel) ==
  SelectSeq(envs, LAMBDA e : sel = None \/ sel[1] = <<>>
                             \/ \E j \in DOMAIN sel[1] : sel[1][j] = e.s)

(* C9: a successful export writes exactly the lines NAME=VALUE\n of the
   profile's variables whose name is selected (all of them when the selection
   is absent or empty), in the profile's order, and nothing else. *)
C9_ExportLines ==
  (op.cmd = "Export" /\ res = "Ok") =>
    LET lines == C9_Selected(load_envs(Contents(files, ProfileFile(op.name))), op.arg)
    IN  /\ target # None
        /\ Len(target[1]) = 4 * Len(lines)
        /\ \A i \in DOMAIN lines :
             SubSeq(target[1], 4 * i - 3, 4 * i) = <<lines[i].s, "=", lines[i].v, "\n">>

C9_Witness ==
  /\ op.cmd = "Export"
  /\ res = "Ok"
  /\ op.arg = Some(<<"Y", "X">>)
  /\ target = Some(<<"X", "=", "1", "\n", "Y", "=", "", "\n">>)

(* C10: a profile the Create command writes under the passphrase scheme is
   sealed with a passphrase of at least MinKeyLen characters, and a Create
   whose passphrase prompt yields no key writes no file. *)
C10_PassphraseLength ==
  [][op'.cmd = "Create" =>
       /\ op'.arg = None => files' = files
       /\ \A f \in FileNames :
            files'[f] # files[f] =>
              /\ files'[f] # None
              /\ files'[f][1][1] = op'.arg[1]
              /\ files'[f][1][1].s = "age" => files'[f][1][1].n >= MinKeyLen]_vars

C10_Witness ==
  /\ op.cmd = "Create"
  /\ res = "Ok"
  /\ op.arg = Some(Hdr("age", MinKeyLen))
  /\ Contents(files, ProfileFile(op.name)) = <<Hdr("age", MinKeyLen), VarX>>

(* ----- C11 ----- *)

SEP == "/"

ValidProfileName(name) ==
  /\ name # <<>>
  /\ ~starts_with_dot(name)
  /\ \A i \in 1..Len(name) : name[i] # SEP

(* C11: every profile file that the Create or the Import command brings into
   existence has a valid name (not empty, not beginning with a dot, no path
   separator); a command given another name writes no file. *)
C11_CreatedNamesValid ==
  [][op'.cmd \in { "Create", "Import" } /\ ~ValidProfileName(op'.name)
       => files' = files]_vars

(* ----- C12 ----- *)

(* C12: whatever Add, Update and Remove commands have run, every variable
   name in a stored profile is non-empty and occurs exactly once; in
   particular Add given "=VALUE" never stores a variable with an empty name. *)
C12_NamesNonEmptyUnique ==
  \A f \in Present(files) :
    WellFormed(Contents(files, f)) =>
      LET ks == keys(load_envs(Contents(files, f)))
      IN  Distinct(ks) /\ \A i \in 1..Len(ks) : ks[i] # ""

(* ----- C14 ----- *)

ArgKey(arg) == IF arg[1] = EQ THEN "" ELSE arg[1]

StoredEnvs(fs, name) == load_envs(Contents(fs, ProfileFile(name)))

C14_NamesTwice(envs, args) ==
  \E i \in 1..Len(args) :
    \/ contains(keys(envs), ArgKey(args[i]))
    \/ \E j \in 1..(i - 1) : ArgKey(args[j]) = ArgKey(args[i])

(* C14: an Add one of whose arguments names a variable the profile already
   holds, or one an earlier argument of the same command names, fails without
   pushing: the stored profile is left as it was. *)
C14_AddAllOrNothing ==
  [][(/\ op'.cmd = "Add"
      /\ WellFormed(Contents(files, ProfileFile(op'.name)))
      /\ C14_NamesTwice(StoredEnvs(files, op'.name), op'.arg))
       => files' = files /\ res' \in { "Duplicate", "Exit", "Rejected" }]_vars

C14_Witness ==
  /\ op.cmd = "Add" /\ res = "Duplicate"
  /\ Len(op.arg) = 2
  /\ ArgKey(op.arg[1]) = ArgKey(op.arg[2])
  /\ WellFormed(Contents(files, ProfileFile(op.name)))
  /\ ~contains(keys(StoredEnvs(files, op.name)), ArgKey(op.arg[1]))

(* ----- C15 ----- *)

(* C15: Update leaves the names of a profile and their order as they were;
   when an argument names a variable the profile lacks the command fails and
   the stored profile is unchanged, and otherwise only the values of the
   variables named change. *)
C15_UpdateKeepsNames ==
  [][op'.cmd = "Update" =>
       LET f == ProfileFile(op'.name)
           old == Contents(files, f)
           new == Contents(files', f)
       IN  /\ \A g \in FileNames : (files'[g] = None) = (files[g] = None)
           /\ \A g \in FileNames \ { f } : files'[g] = files[g]
           /\ Len(new) = Len(old)
           /\ \A i \in 1..Len(old) : new[i].k = old[i].k /\ new[i].s = old[i].s
           /\ \A i \in 1..Len(old) :
                new[i] # old[i] => \E a \in 1..Len(op'.arg) : ArgKey(op'.arg[a]) = old[i].s
           /\ (/\ WellFormed(old)
               /\ \E a \in 1..Len(op'.arg) :
                    ~contains(keys(load_envs(old)), ArgKey(op'.arg[a])))
                => files' = files /\ res' \in { "Missing", "Exit", "Rejected" }]_vars

C15_Witness ==
  /\ op.cmd = "Update" /\ res = "Ok"
  /\ op.arg = << <<"X", EQ, "2">> >>
  /\ Len(StoredEnvs(files, op.name)) = 2
  /\ contains(StoredEnvs(files, op.name), Var("X", "2"))

(* ----- C16 ----- *)

(* C16: Remove given variable names of which one is absent from the profile
   fails (Missing) and does not end as a successful push. *)
C16_RemoveAbsentFails ==
  [][(/\ op'.cmd = "Remove"
      /\ op'.arg # None
      /\ WellFormed(Contents(files, ProfileFile(op'.name)))
      /\ \E i \in 1..Len(op'.arg[1]) :
           ~contains(keys(StoredEnvs(files, op'.name)), op'.arg[1][i]))
       => res' # "Ok"]_vars

(* ----- C18 ----- *)

(* C18: an export that fails because the profile is empty, or because a
   non-empty selection matches none of its variables, leaves the target file
   as it was: not created, not truncated. *)
C18_FailedExportKeepsTarget ==
  [][op'.cmd = "Export" /\ res' \in { "EmptyProfile", "Msg" } => target' = target]_vars

(* ----- C19 ----- *)

(* C19: after import_profile succeeds, profiles/<name>.env holds exactly the
   bytes of the source file, whatever the target held before (a longer file
   included). *)
C19_ImportCopiesSource ==
  [][op'.cmd = "import_profile" /\ res' = "Ok"
       => files'[ProfileFile(op'.name)] = Some(op'.arg[1])]_vars

(* ----- C20 ----- *)

(* C20: Remove deletes the profile file exactly when it is given no variable
   list or an empty one; given variable names, the file is still there
   afterwards and only the variables named are gone; when the profile does not
   exist the command changes nothing. *)
C20_RemoveDeletesOrEdits ==
  [][op'.cmd = "Remove" =>
       LET f == ProfileFile(op'.name)
           noVars == op'.arg = None \/ op'.arg[1] = <<>>
           old == Contents(files, f)
       IN  /\ \A g \in FileNames \ { f } : files'[g] = files[g]
           /\ ~does_exist(files, op'.name) => files' = files /\ res' = "Rejected"
           /\ does_exist(files, op'.name) /\ noVars =>
                \/ res' = "Ok" /\ files'[f] = None
                \/ res' = "Io" /\ files' = files
           /\ does_exist(files, op'.name) /\ ~noVars =>
                \/ /\ res' = "Ok"
                   /\ WellFormed(old)
                   /\ files'[f] = Some(<<old[1]>> \o
                        SelectSeq(load_envs(old), LAMBDA e : ~contains(op'.arg[1], e.s)))
                \/ res' # "Ok" /\ files' = files]_vars

C20_Witness ==
  /\ op.cmd = "Remove" /\ res = "Ok"
  /\ op.arg = Some(<<"X">>)
  /\ does_exist(files, op.name)
  /\ keys(StoredEnvs(files, op.name)) = <<"Y">>

(* ----- C13 ----- *)

(* C13: while create_profile or import_profile writes a profile file, a
   reader sees the file as it was before the write or with the complete new
   bytes, never empty or partly written. *)
C13_NoTornFile ==
  op.cmd \in { "import_open", "import_write" } =>
    \/ files[ProfileFile(op.name)] = op.arg[1].pre
    \/ files[ProfileFile(op.name)] = Some(op.arg[1].envs)

(* ----- C17 ----- *)

C17_ArgValue(arg) == arg[Len(arg)]

C17_Own(proc) ==
  IF proc.cmd = "Add"
  THEN proc.snap \o [i \in 1..Len(proc.args) |->
                       Var(ArgKey(proc.args[i]), C17_ArgValue(proc.args[i]))]
  ELSE IF proc.cmd = "Update"
  THEN [i \in 1..Len(proc.snap) |->
          IF \E a \in 1..Len(proc.args) : ArgKey(proc.args[a]) = proc.snap[i].s
          THEN Var(proc.snap[i].s,
                   C17_ArgValue(proc.args[CHOOSE a \in 1..Len(proc.args) :
                     /\ ArgKey(proc.args[a]) = proc.snap[i].s
                     /\ \A b \in (a + 1)..Len(proc.args) :
                          ArgKey(proc.args[b]) # proc.snap[i].s]))
          ELSE proc.snap[i]]
  ELSE SelectSeq(proc.snap, LAMBDA e : ~contains(proc.args, e.s))

(* C17: when two commands on the same profile interleave, each loading
   before the other pushes, the file holds after a push exactly the variables
   of the command that pushed: what it loaded with its own changes, and
   nothing of what the other wrote in between. *)
C17_LastWriterWins ==
  op.cmd = "push" /\ res = "Ok" =>
    files[ProfileFile(op.name)] = Some(<<op.arg[1].enc>> \o C17_Own(op.arg[1]))

C17_Witness ==
  /\ op.cmd = "push" /\ res = "Ok"
  /\ op.arg[1].stale
  /\ op.arg[1].cmd = "Add"
  /\ keys(StoredEnvs(files, op.name)) = <<"X", "Y">>

(* ----- C21 ----- *)

(* C21: setenv.sh is always empty or the script of the profile loaded last
   with success: a load_profile that succeeds replaces the file by the script
   of its profile, one that fails leaves the file as it was or empty (for a
   profile that does not exist: as it was, with ProfileDoesNotExist), and
   unload_profile leaves it empty. *)
C21_SetenvEmptyOrLastLoaded ==
  [][/\ op'.cmd = "load_profile" =>
          IF ~does_exist(files, op'.name)
          THEN res' = "ProfileDoesNotExist" /\ setenv' = setenv
          ELSE IF res' = "Ok" THEN setenv' = Some(shellscript(op'.name))
          ELSE setenv' \in { setenv, Some(<<>>) }
     /\ op'.cmd = "unload_profile" =>
          IF res' = "Ok" THEN setenv' = Some(<<>>) ELSE setenv' = setenv]_vars

====
